---- MODULE Spec2Model ----
(***************************************************************************)
(* A model of the property tree of src/src/qtproperty.cpp: QtProperty and  *)
(* its container variants QtListProperty, QtDictProperty, QtGroupProperty. *)
(* Signals are delivered synchronously; the only slots inside the tree are *)
(* the containers' slotChildValueChange, so one operation of the caller is *)
(* one action, and the notifications it emits are recorded in `log`.       *)
(***************************************************************************)
EXTENDS Integers, Sequences, FiniteSets, TLC

\* ------------------------------------------------------------------ bounds
MaxScalar == 1
StackLimit == 12
MaxOps == 3
MaxListLen == 2

\* ------------------------------------------------------- nodes and values
TYPE_LEAF == "leaf"
TYPE_LIST == "list"
TYPE_DICT == "dict"
TYPE_GROUP == "group"

\* The properties the caller constructs: the type and the name of node 1, 2
\* and 3, one row per scenario.
TreeKinds == <<
    <<[t |-> TYPE_LIST,  n |-> "a"], [t |-> TYPE_LEAF,  n |-> "a"], [t |-> TYPE_LEAF, n |-> "b"]>>,
    <<[t |-> TYPE_DICT,  n |-> "a"], [t |-> TYPE_LEAF,  n |-> "a"], [t |-> TYPE_LEAF, n |-> "b"]>>,
    <<[t |-> TYPE_GROUP, n |-> "b"], [t |-> TYPE_GROUP, n |-> "a"], [t |-> TYPE_LEAF, n |-> "a"]>>,
    <<[t |-> TYPE_DICT,  n |-> "b"], [t |-> TYPE_GROUP, n |-> "b"], [t |-> TYPE_LEAF, n |-> "a"]>>,
    <<[t |-> TYPE_LIST,  n |-> "a"], [t |-> TYPE_DICT,  n |-> "b"], [t |-> TYPE_LEAF, n |-> "a"]>>,
    <<[t |-> TYPE_GROUP, n |-> "b"], [t |-> TYPE_LEAF,  n |-> "a"], [t |-> TYPE_LEAF, n |-> "a"]>> >>

NumNodes == Len(TreeKinds[1])
Node == 1..NumNodes
NULL == 0

Names == {"a", "b"}

\* QVariant: invalid (null), an integer, a QVariantList or a QVariantMap.
\* A map is a function on Names; keys it does not hold map to Absent.
Absent == [k |-> "absent"]
NoMap == [x \in Names |-> Absent]
Null == [k |-> "null", i |-> 0, l |-> <<>>, m |-> NoMap]
IntV(x) == [k |-> "int", i |-> x, l |-> <<>>, m |-> NoMap]
ListV(s) == [k |-> "list", i |-> 0, l |-> s, m |-> NoMap]
MapV(f) == [k |-> "map", i |-> 0, l |-> <<>>, m |-> f]

\* QVariant::toList: the list of a list variant, else the empty list.
toList(v) == IF v.k = "list" THEN v.l ELSE <<>>

\* QVariant::toMap: the map of a map variant, else the empty map.
toMap(v) == IF v.k = "map" THEN v.m ELSE NoMap

\* QMap::value(key): the entry, or a default-constructed QVariant.
MapValue(f, key) == IF f[key] = Absent THEN Null ELSE f[key]

RECURSIVE ensureSize(_, _)
ensureSize(list, size) ==
    IF Len(list) < size THEN ensureSize(Append(list, Null), size) ELSE list

\* ------------------------------------------------------------------ state
VARIABLES
    alive,      \* the nodes that have been constructed and not yet destroyed
    type,       \* type_ of each node
    name,       \* name_ of each node
    value,      \* value_ of each node
    parent,     \* parent_ of each node (NULL when none)
    children,   \* children_ of each node, in order
    conns,      \* per sender, the receivers connected to its signalValueChange
    status,     \* "running", "aborted" (failed assert), "overflow" (stack)
    last,       \* the operation the caller invoked last
    log,        \* the hooks and signals of the last operation, in order
    ops         \* the number of operations the caller has invoked

vars == <<alive, type, name, value, parent, children, conns, status, last, log, ops>>

KindOf(kind, n) == kind[n]

IsContainer(n) == type[n] \in {TYPE_LIST, TYPE_DICT, TYPE_GROUP}

\* One entry of the log: a hook call or a signal emission, with the parent
\* and children relation as it is when the hook or the signal is delivered.
Ev(e, a, b, par, ch) == [e |-> e, a |-> a, b |-> b, par |-> par, ch |-> ch]

\* The last call: the operation, its receiver a, its node argument b, its
\* name argument nm, its value argument v and the node it returned, r.
Op(op, a, b, nm, v, r) == [op |-> op, a |-> a, b |-> b, nm |-> nm, v |-> v, r |-> r]

\* QtProperty::QtProperty, followed by the caller's setName.
Init ==
    /\ \E kind \in {TreeKinds[i] : i \in 1..Len(TreeKinds)} :
          /\ type = [n \in Node |-> KindOf(kind, n).t]
          /\ name = [n \in Node |-> KindOf(kind, n).n]
    /\ alive = Node
    /\ value = [n \in Node |-> Null]
    /\ parent = [n \in Node |-> NULL]
    /\ children = [n \in Node |-> <<>>]
    /\ conns = [n \in Node |-> <<>>]
    /\ status = "running"
    /\ last = Op("none", NULL, NULL, "a", Null, NULL)
    /\ log = <<>>
    /\ ops = 0

\* ------------------------------------------------- structural operations
\* QList::indexOf: the 0-based position of the first occurrence, or -1.
RECURSIVE indexOfFrom(_, _, _)
indexOfFrom(list, x, from) ==
    IF from > Len(list) THEN -1
    ELSE IF list[from] = x THEN from - 1
    ELSE indexOfFrom(list, x, from + 1)

indexChild(ch, p, child) == indexOfFrom(ch[p], child, 1)

\* QList::erase at a 0-based position.
EraseAt(list, i) ==
    [j \in 1..(Len(list) - 1) |-> IF j <= i THEN list[j] ELSE list[j + 1]]

\* QtProperty::onChildAdd and its override QtContainerProperty::onChildAdd.
onChildAdd(cn, p, child) ==
    IF IsContainer(p) THEN [cn EXCEPT ![child] = Append(@, p)] ELSE cn

\* QtProperty::onChildRemove and QtContainerProperty::onChildRemove;
\* `virt` is FALSE when p is inside its own destructor, where the call
\* reaches the base class.  disconnect removes every matching connection.
onChildRemove(cn, p, child, virt) ==
    IF virt /\ IsContainer(p)
    THEN [cn EXCEPT ![child] = SelectSeq(@, LAMBDA r : r # p)]
    ELSE cn

\* The structure an operation works on.
Structure == [parent |-> parent, children |-> children, conns |-> conns,
              log |-> <<>>, status |-> status]

\* addChild without its assert, as a build with NDEBUG compiles it.
addChildOp_noAssert(ss, p, child) ==
    LET ch1 == [ss.children EXCEPT ![p] = Append(@, child)]
        par1 == [ss.parent EXCEPT ![child] = p]
    IN  [ss EXCEPT !.children = ch1,
                   !.parent = par1,
                   !.conns = onChildAdd(ss.conns, p, child),
                   !.log = ss.log \o <<Ev("onChildAdd", child, p, par1, ch1),
                                       Ev("signalPropertyInserted", child, p, par1, ch1)>>]

\* QtProperty::addChild.
addChildOp(ss, p, child) ==
    IF ss.parent[child] # NULL
    THEN [ss EXCEPT !.status = "aborted"]
    ELSE LET ch1 == [ss.children EXCEPT ![p] = Append(@, child)]
             par1 == [ss.parent EXCEPT ![child] = p]
         IN  [ss EXCEPT !.children = ch1,
                        !.parent = par1,
                        !.conns = onChildAdd(ss.conns, p, child),
                        !.log = ss.log \o <<Ev("onChildAdd", child, p, par1, ch1),
                                            Ev("signalPropertyInserted", child, p, par1, ch1)>>]

\* removeChild that notifies before it clears the back-reference.
removeChildOp_lateClear(ss, p, child, virt) ==
    IF ss.status # "running" THEN ss
    ELSE IF ss.parent[child] # p
    THEN [ss EXCEPT !.status = "aborted"]
    ELSE LET i == indexChild(ss.children, p, child) IN
         IF i < 0 THEN ss
         ELSE LET par1 == [ss.parent EXCEPT ![child] = NULL]
                  ch1 == [ss.children EXCEPT ![p] = EraseAt(@, i)]
              IN  [ss EXCEPT !.parent = par1,
                             !.children = ch1,
                             !.conns = onChildRemove(ss.conns, p, child, virt),
                             !.log = ss.log \o <<Ev("onChildRemove", child, p, ss.parent, ch1),
                                                 Ev("signalPropertyRemoved", child, p, ss.parent, ch1)>>]

\* removeChild without its assert, as a build with NDEBUG compiles it.
removeChildOp_noAssert(ss, p, child, virt) ==
    IF ss.status # "running" THEN ss
    ELSE LET i == indexChild(ss.children, p, child) IN
         IF i < 0 THEN ss
         ELSE LET par1 == [ss.parent EXCEPT ![child] = NULL]
                  ch1 == [ss.children EXCEPT ![p] = EraseAt(@, i)]
              IN  [ss EXCEPT !.parent = par1,
                             !.children = ch1,
                             !.conns = onChildRemove(ss.conns, p, child, virt),
                             !.log = ss.log \o <<Ev("onChildRemove", child, p, par1, ch1),
                                                 Ev("signalPropertyRemoved", child, p, par1, ch1)>>]

\* QtProperty::removeChild.
removeChildOp(ss, p, child, virt) ==
    IF ss.status # "running" THEN ss
    ELSE IF ss.parent[child] # p
    THEN [ss EXCEPT !.status = "aborted"]
    ELSE LET i == indexChild(ss.children, p, child) IN
         IF i < 0 THEN ss
         ELSE LET par1 == [ss.parent EXCEPT ![child] = NULL]
                  ch1 == [ss.children EXCEPT ![p] = EraseAt(@, i)]
              IN  [ss EXCEPT !.parent = par1,
                             !.children = ch1,
                             !.conns = onChildRemove(ss.conns, p, child, virt),
                             !.log = ss.log \o <<Ev("onChildRemove", child, p, par1, ch1),
                                                 Ev("signalPropertyRemoved", child, p, par1, ch1)>>]

\* QtProperty::removeFromParent.
removeFromParentOp(ss, n) ==
    IF ss.parent[n] # NULL THEN removeChildOp(ss, ss.parent[n], n, TRUE) ELSE ss

RECURSIVE removeEach(_, _, _, _, _)
removeEach(ss, p, temp, i, virt) ==
    IF i > Len(temp) THEN ss
    ELSE removeEach(removeChildOp(ss, p, temp[i], virt), p, temp, i + 1, virt)

\* removeAllChildren that walks children_ itself while removeChild erases
\* from it.
RECURSIVE removeEachLive(_, _, _, _)
removeEachLive(ss, p, i, virt) ==
    IF i > Len(ss.children[p]) THEN ss
    ELSE removeEachLive(removeChildOp(ss, p, ss.children[p][i], virt), p, i + 1, virt)

removeAllChildrenOp_live(ss, p, virt) == removeEachLive(ss, p, 1, virt)

\* QtProperty::removeAllChildren: the loop over the copy `temp`.
removeAllChildrenOp(ss, p, virt) == removeEach(ss, p, ss.children[p], 1, virt)

\* QtProperty::~QtProperty, then QObject::~QObject, which drops every
\* connection the object takes part in.
destroyOp(ss, n) ==
    LET s0 == [ss EXCEPT !.log = ss.log \o
                   <<Ev("signalPropertyRemoved", n, ss.parent[n], ss.parent, ss.children)>>]
        s1 == removeAllChildrenOp(s0, n, FALSE)
        s2 == removeFromParentOp(s1, n)
    IN  [s2 EXCEPT !.conns = [c \in Node |->
                        IF c = n THEN <<>> ELSE SelectSeq(s2.conns[c], LAMBDA r : r # n)]]

Running == status = "running" /\ ops < MaxOps

Restructure(ss, op) ==
    /\ parent' = ss.parent
    /\ children' = ss.children
    /\ conns' = ss.conns
    /\ status' = ss.status
    /\ log' = ss.log
    /\ last' = op
    /\ ops' = ops + 1

AddChild(p, child) ==
    /\ Running /\ p \in alive /\ child \in alive
    /\ Restructure(addChildOp(Structure, p, child), Op("addChild", p, child, "a", Null, NULL))
    /\ UNCHANGED <<alive, type, name, value>>

RemoveChild(p, child) ==
    /\ Running /\ p \in alive /\ child \in alive
    /\ Restructure(removeChildOp(Structure, p, child, TRUE), Op("removeChild", p, child, "a", Null, NULL))
    /\ UNCHANGED <<alive, type, name, value>>

RemoveFromParent(n) ==
    /\ Running /\ n \in alive
    /\ Restructure(removeFromParentOp(Structure, n), Op("removeFromParent", n, NULL, "a", Null, NULL))
    /\ UNCHANGED <<alive, type, name, value>>

RemoveAllChildren(p) ==
    /\ Running /\ p \in alive
    /\ Restructure(removeAllChildrenOp(Structure, p, TRUE), Op("removeAllChildren", p, NULL, "a", Null, NULL))
    /\ UNCHANGED <<alive, type, name, value>>

Destroy(n) ==
    /\ Running /\ n \in alive
    /\ Restructure(destroyOp(Structure, n), Op("destroy", n, NULL, "a", Null, NULL))
    /\ alive' = alive \ {n}
    /\ value' = [value EXCEPT ![n] = Null]
    /\ UNCHANGED <<type, name>>

\* The caller's node->removeFromParent(); delete node;
RemoveAndDestroy(n) ==
    /\ Running /\ n \in alive
    /\ Restructure(destroyOp(removeFromParentOp(Structure, n), n),
                   Op("removeAndDestroy", n, NULL, "a", Null, NULL))
    /\ alive' = alive \ {n}
    /\ value' = [value EXCEPT ![n] = Null]
    /\ UNCHANGED <<type, name>>

\* ------------------------------------------------------ value operations
\* The values an operation works on.
Values == [value |-> value, log |-> <<>>, status |-> status]

ValueEv(e, a, b) == Ev(e, a, b, <<>>, <<>>)

RECURSIVE setValue(_, _, _, _)
RECURSIVE setListChildren(_, _, _, _, _)
RECURSIVE setDictChildren(_, _, _, _, _)
RECURSIVE emitValueChange(_, _, _, _)
RECURSIVE deliver(_, _, _, _, _)
RECURSIVE slotChildValueChange(_, _, _, _)

\* QtProperty::setValue.
leafSetValue(vs, n, v, d) ==
    IF vs.value[n] # v
    THEN emitValueChange([vs EXCEPT !.value[n] = v], n, n, d)
    ELSE vs

\* QtListProperty::setValue that hands on only the elements v has, without
\* ensureSize.
listSetValue_noPad(vs, n, v, d) ==
    IF vs.value[n] = v THEN vs
    ELSE LET s1 == [vs EXCEPT !.value[n] = v]
             valueList == toList(v)
         IN  emitValueChange(
                 setListChildren(s1, n,
                     valueList \o SubSeq([i \in 1..Len(children[n]) |-> vs.value[children[n][i]]],
                                         Len(valueList) + 1, Len(children[n])),
                     1, d),
                 n, n, d)

\* QtListProperty::setValue.
listSetValue(vs, n, v, d) ==
    IF vs.value[n] = v THEN vs
    ELSE LET s1 == [vs EXCEPT !.value[n] = v]
             valueList == ensureSize(toList(v), Len(children[n]))
         IN  emitValueChange(setListChildren(s1, n, valueList, 1, d), n, n, d)

setListChildren(vs, n, valueList, i, d) ==
    IF i > Len(children[n]) THEN vs
    ELSE setListChildren(setValue(vs, children[n][i], valueList[i], d),
                         n, valueList, i + 1, d)

\* QtDictProperty::setValue that skips the children whose name is no key.
dictSetValue_skipAbsent(vs, n, v, d) ==
    IF vs.value[n] = v THEN vs
    ELSE LET s1 == [vs EXCEPT !.value[n] = v]
             valueMap == toMap(v)
             filled == [x \in Names |->
                          IF valueMap[x] # Absent THEN valueMap[x]
                          ELSE LET cs == {c \in Node : parent[c] = n /\ name[c] = x}
                               IN  IF cs = {} THEN Absent ELSE vs.value[CHOOSE c \in cs : TRUE]]
         IN  emitValueChange(setDictChildren(s1, n, filled, 1, d), n, n, d)

\* QtDictProperty::setValue.
dictSetValue(vs, n, v, d) ==
    IF vs.value[n] = v THEN vs
    ELSE LET s1 == [vs EXCEPT !.value[n] = v]
             valueMap == toMap(v)
         IN  emitValueChange(setDictChildren(s1, n, valueMap, 1, d), n, n, d)

setDictChildren(vs, n, valueMap, i, d) ==
    IF i > Len(children[n]) THEN vs
    ELSE LET child == children[n][i] IN
         setDictChildren(setValue(vs, child, MapValue(valueMap, name[child]), d),
                         n, valueMap, i + 1, d)

\* QtGroupProperty::setValue.
groupSetValue(vs, n, v, d) == vs

\* The virtual call node->setValue(v), with d stack frames left.
setValue(vs, n, v, d) ==
    IF vs.status # "running" THEN vs
    ELSE IF d = 0 THEN [vs EXCEPT !.status = "overflow"]
    ELSE LET s0 == [vs EXCEPT !.log = Append(@, ValueEv("setValue", n, NULL))] IN
         CASE type[n] = TYPE_LEAF  -> leafSetValue(s0, n, v, d - 1)
           [] type[n] = TYPE_LIST  -> listSetValue(s0, n, v, d - 1)
           [] type[n] = TYPE_DICT  -> dictSetValue(s0, n, v, d - 1)
           [] type[n] = TYPE_GROUP -> groupSetValue(s0, n, v, d - 1)

\* emit signalValueChange(payload) by src: every connected slot runs, in
\* connection order, before the emit returns.
emitValueChange(vs, src, payload, d) ==
    IF vs.status # "running" THEN vs
    ELSE deliver([vs EXCEPT !.log = Append(@, ValueEv("signalValueChange", src, payload))],
                 conns[src], 1, payload, d)

deliver(vs, receivers, i, payload, d) ==
    IF i > Len(receivers) THEN vs
    ELSE deliver(slotChildValueChange(vs, receivers[i], payload, d),
                 receivers, i + 1, payload, d)

\* QtListProperty::slotChildValueChange.
listSlotChildValueChange(vs, n, child, d) ==
    LET i == indexChild(children, n, child) IN
    IF i >= 0
    THEN LET valueList == ensureSize(toList(vs.value[n]), i + 1) IN
         IF valueList[i + 1] # vs.value[child]
         THEN emitValueChange(
                 [vs EXCEPT !.value[n] = ListV([valueList EXCEPT ![i + 1] = vs.value[child]])],
                 n, n, d)
         ELSE vs
    ELSE vs

\* QtDictProperty::slotChildValueChange.
dictSlotChildValueChange(vs, n, property, d) ==
    LET valueMap == toMap(vs.value[n])
        oldValue == MapValue(valueMap, name[property])
    IN  IF vs.value[property] # oldValue
        THEN emitValueChange(
                [vs EXCEPT !.value[n] = MapV([valueMap EXCEPT ![name[property]] = vs.value[property]])],
                n, n, d)
        ELSE vs

\* A group that keeps the notification of its child to itself.
groupSlotChildValueChange_silent(vs, n, property, d) == vs

\* A group that announces itself, as a list or a dict does.
groupSlotChildValueChange_self(vs, n, property, d) ==
    emitValueChange(vs, n, n, d)

\* QtGroupProperty::slotChildValueChange.
groupSlotChildValueChange(vs, n, property, d) ==
    emitValueChange(vs, n, property, d)

\* The virtual slot of receiver n, with d stack frames left.
slotChildValueChange(vs, n, property, d) ==
    IF vs.status # "running" THEN vs
    ELSE IF d = 0 THEN [vs EXCEPT !.status = "overflow"]
    ELSE CASE type[n] = TYPE_LIST  -> listSlotChildValueChange(vs, n, property, d - 1)
           [] type[n] = TYPE_DICT  -> dictSlotChildValueChange(vs, n, property, d - 1)
           [] type[n] = TYPE_GROUP -> groupSlotChildValueChange(vs, n, property, d - 1)
           [] OTHER -> vs

\* ------------------------------------------------------------- lookups
\* QtProperty::findChild: the first direct child of that name.
RECURSIVE baseFindChild(_, _, _)
baseFindChild(n, nm, i) ==
    IF i > Len(children[n]) THEN NULL
    ELSE IF name[children[n][i]] = nm THEN children[n][i]
    ELSE baseFindChild(n, nm, i + 1)

\* A call that ran out of stack returns this.
OVERFLOW == NumNodes + 1

RECURSIVE findChild(_, _, _)
RECURSIVE groupFindChild(_, _, _, _)
RECURSIVE groupFindChild_anyType(_, _, _, _)

\* findChild that descends into a child of any type.
groupFindChild_anyType(n, nm, i, d) ==
    IF i > Len(children[n]) THEN NULL
    ELSE LET child == children[n][i]
             result == IF nm = name[child] THEN child
                       ELSE IF d > 0 THEN groupFindChild_anyType(child, nm, 1, d - 1)
                       ELSE NULL
         IN  IF result # NULL THEN result ELSE groupFindChild_anyType(n, nm, i + 1, d)

\* QtGroupProperty::findChild, from child i on.
groupFindChild(n, nm, i, d) ==
    IF i > Len(children[n]) THEN NULL
    ELSE LET child == children[n][i]
             result == IF nm = name[child] THEN child
                       ELSE IF type[child] = TYPE_GROUP THEN findChild(child, nm, d)
                       ELSE NULL
         IN  IF result # NULL THEN result ELSE groupFindChild(n, nm, i + 1, d)

\* The virtual call node->findChild(nm), with d stack frames left.
findChild(n, nm, d) ==
    IF d = 0 THEN OVERFLOW
    ELSE IF type[n] = TYPE_GROUP THEN groupFindChild(n, nm, 1, d - 1)
    ELSE baseFindChild(n, nm, 1)

RECURSIVE setChildValue(_, _, _, _, _)
RECURSIVE groupSetChildValue(_, _, _, _, _, _)

\* The log entry of the call child->setValue(value) that setChildValue of n
\* makes.
SetByParent(vs, n, child) ==
    [vs EXCEPT !.log = Append(@, ValueEv("setChildValue.setValue", n, child))]

\* QtProperty::setChildValue.
baseSetChildValue(vs, n, nm, v, d) ==
    LET child == findChild(n, nm, d) IN
    IF child = OVERFLOW THEN [vs EXCEPT !.status = "overflow"]
    ELSE IF child # NULL THEN setValue(SetByParent(vs, n, child), child, v, d)
    ELSE vs

\* setChildValue of a group that sets the first match of findChild only, as
\* the base class does.
groupSetChildValue_firstMatch(vs, n, nm, v, i, d) ==
    LET child == findChild(n, nm, d) IN
    IF child = OVERFLOW THEN [vs EXCEPT !.status = "overflow"]
    ELSE IF child # NULL THEN setValue(SetByParent(vs, n, child), child, v, d)
    ELSE vs

\* QtGroupProperty::setChildValue, from child i on.
groupSetChildValue(vs, n, nm, v, i, d) ==
    IF i > Len(children[n]) THEN vs
    ELSE LET child == children[n][i]
             s1 == IF type[child] = TYPE_GROUP THEN setChildValue(vs, child, nm, v, d)
                   ELSE IF nm = name[child] THEN setValue(SetByParent(vs, n, child), child, v, d)
                   ELSE vs
         IN  groupSetChildValue(s1, n, nm, v, i + 1, d)

\* The virtual call node->setChildValue(nm, v), with d stack frames left.
setChildValue(vs, n, nm, v, d) ==
    IF vs.status # "running" THEN vs
    ELSE IF d = 0 THEN [vs EXCEPT !.status = "overflow"]
    ELSE IF type[n] = TYPE_GROUP THEN groupSetChildValue(vs, n, nm, v, 1, d - 1)
    ELSE baseSetChildValue(vs, n, nm, v, d - 1)

\* The values the caller passes: scalars to any node, sequences of scalars to
\* a list, mappings of scalars to a dict.
ScalarValues == {Null} \cup {IntV(x) : x \in 1..MaxScalar}
ListInputs == {ListV(s) : s \in UNION {[1..k -> {IntV(x) : x \in 1..MaxScalar}] : k \in 1..MaxListLen}}
MapInputs == {MapV(f) : f \in [Names -> {Absent} \cup {IntV(x) : x \in 1..MaxScalar}]}
InputsFor(n) ==
    CASE type[n] = TYPE_LIST -> {Null, IntV(1)} \cup ListInputs
      [] type[n] = TYPE_DICT -> {Null, IntV(1)} \cup MapInputs
      [] OTHER -> ScalarValues

\* A call that overflows the stack ends the program; the state it leaves is
\* not observed.
Revalue(vs, op) ==
    /\ status' = vs.status
    /\ value' = IF vs.status = "running" THEN vs.value ELSE value
    /\ log' = vs.log
    /\ last' = op
    /\ ops' = ops + 1
    /\ UNCHANGED <<alive, type, name, parent, children, conns>>

SetValue(n, v) ==
    /\ Running /\ n \in alive
    /\ Revalue(setValue(Values, n, v, StackLimit), Op("setValue", n, NULL, "a", v, NULL))

SetChildValue(n, nm, v) ==
    /\ Running /\ n \in alive
    /\ Revalue(setChildValue(Values, n, nm, v, StackLimit), Op("setChildValue", n, NULL, nm, v, NULL))

FindChild(n, nm) ==
    /\ Running /\ n \in alive
    /\ LET r == findChild(n, nm, StackLimit) IN
       /\ status' = IF r = OVERFLOW THEN "overflow" ELSE status
       /\ last' = Op("findChild", n, NULL, nm, Null, IF r = OVERFLOW THEN NULL ELSE r)
    /\ log' = <<>>
    /\ ops' = ops + 1
    /\ UNCHANGED <<alive, type, name, value, parent, children, conns>>

\* ------------------------------------------------------------ properties
\* The number of times x occurs in a sequence.
RECURSIVE Count(_, _)
Count(list, x) ==
    IF list = <<>> THEN 0
    ELSE (IF Head(list) = x THEN 1 ELSE 0) + Count(Tail(list), x)

\* The back-references and the child sequences agree.
InSync(par, ch) ==
    \A c \in Node : \A p \in Node :
        Count(ch[p], c) = IF par[c] = p THEN 1 ELSE 0

StructuralEvents ==
    {"onChildAdd", "onChildRemove", "signalPropertyInserted", "signalPropertyRemoved"}

\* The entries of the log of one kind, in order.
EventsOf(lg, e) == SelectSeq(lg, LAMBDA x : x.e = e)

\* The number of signalValueChange emissions by node n in a log.
Emissions(lg, n) == Len(SelectSeq(lg, LAMBDA x : x.e = "signalValueChange" /\ x.a = n))

\* C1: in every state, and at every hook call and every childInserted or
\* childRemoved emission, c.parent = p exactly when c occurs in p.children,
\* and then it occurs there once.
C1_ParentChildrenInSync ==
    /\ InSync(parent, children)
    /\ \A i \in DOMAIN log :
          log[i].e \in StructuralEvents => InSync(log[i].par, log[i].ch)

\* A node with a parent and a child has been destroyed: one notification of
\* its own, then two per unlinking.
C1_Witness ==
    /\ last.op = "destroy"
    /\ status = "running"
    /\ Len(log) = 5
    /\ \E i \in DOMAIN log : log[i].e \in StructuralEvents /\ log[i].par[last.a] # NULL

\* Each child sequence in which c occurs.
ParentsOf(ch, c) == {p \in Node : Count(ch[p], c) > 0}

\* C2: addChild(child) on a child that has a parent fails: nothing of the tree
\* changes and no childInserted is emitted; and no node is ever in more than
\* one child sequence, or more than once in one.
C2_AddChildNeedsNoParent ==
    [][ /\ (last'.op = "addChild" /\ parent[last'.b] # NULL) =>
              /\ status' = "aborted"
              /\ parent' = parent /\ children' = children /\ conns' = conns
              /\ EventsOf(log', "signalPropertyInserted") = <<>>
        /\ \A c \in Node : /\ Cardinality(ParentsOf(children', c)) <= 1
                           /\ \A p \in Node : Count(children'[p], c) <= 1 ]_vars

\* addChild was called on the child of another node.
C2_Witness ==
    /\ last.op = "addChild"
    /\ status = "aborted"
    /\ parent[last.b] \notin {NULL, last.a}

\* The node k parent links above n, NULL when the chain ends before.
RECURSIVE Climb(_, _, _)
Climb(par, n, k) ==
    IF k = 0 \/ n = NULL THEN n ELSE Climb(par, par[n], k - 1)

\* No node is its own ancestor.
Acyclic(par) == \A n \in Node : Climb(par, n, NumNodes) = NULL

\* No signalValueChange is emitted by any node in the log.
NoEmission(lg) == EventsOf(lg, "signalValueChange") = <<>>

\* C3: setValue(v) on a leaf, list or dict emits that node's value change at
\* most once, and not at all when v equals its value; a second setValue(v)
\* in a row changes no value and emits nothing.
C3_SetValueIdempotent ==
    [][ (last'.op = "setValue" /\ status' = "running" /\ type[last'.a] # TYPE_GROUP) =>
            /\ Emissions(log', last'.a) <= 1
            /\ (value[last'.a] = last'.v) => (value' = value /\ NoEmission(log'))
            /\ (last.op = "setValue" /\ last.a = last'.a /\ last.v = last'.v) =>
                   (value' = value /\ NoEmission(log')) ]_vars

\* The same as C3 for the calls made while no node is its own ancestor.
C3_OnTrees ==
    [][ (last'.op = "setValue" /\ status' = "running" /\ type[last'.a] # TYPE_GROUP /\ Acyclic(parent)) =>
            /\ Emissions(log', last'.a) <= 1
            /\ (value[last'.a] = last'.v) => (value' = value /\ NoEmission(log'))
            /\ (last.op = "setValue" /\ last.a = last'.a /\ last.v = last'.v) =>
                   (value' = value /\ NoEmission(log')) ]_vars

\* Element i (from 1) of a sequence, null beyond its end.
ElementAt(list, i) == IF i <= Len(list) THEN list[i] ELSE Null

\* The members of a sequence.
Range(list) == {list[i] : i \in DOMAIN list}

\* Every child of n is a plain QtProperty.
LeafChildren(n) == \A c \in Range(children[n]) : type[c] = TYPE_LEAF

\* C4: setValue(v) on a list with leaf children, v not its value: child i ends
\* with v[i] (null beyond the end of v), a child emits exactly when its value
\* changed, the list emits once and ends with v.
C4_ListSetValue ==
    [][ (/\ last'.op = "setValue"
         /\ status' = "running"
         /\ type[last'.a] = TYPE_LIST
         /\ LeafChildren(last'.a)
         /\ value[last'.a] # last'.v) =>
        LET n == last'.a
            v == last'.v
        IN  /\ \A i \in DOMAIN children[n] :
                  LET c == children[n][i] IN
                  /\ value'[c] = ElementAt(toList(v), i)
                  /\ Emissions(log', c) = IF value'[c] # value[c] THEN 1 ELSE 0
            /\ Emissions(log', n) = 1
            /\ value'[n] = v ]_vars

\* A list of two leaves was set to a one-element sequence: the first child
\* took the element and emitted, the second stayed null and did not.
C4_Witness ==
    /\ last.op = "setValue"
    /\ type[last.a] = TYPE_LIST
    /\ Len(children[last.a]) = 2
    /\ LeafChildren(last.a)
    /\ last.v = ListV(<<IntV(1)>>)
    /\ value[last.a] = last.v
    /\ value[children[last.a][1]] = IntV(1)
    /\ value[children[last.a][2]] = Null
    /\ Emissions(log, children[last.a][1]) = 1
    /\ Emissions(log, children[last.a][2]) = 0

\* C5: when a direct child of a list, at index i, changes its value by its
\* own setValue, the list ends with the child's value at position i and its
\* other positions as they were (null where it was shorter), and emits once;
\* when position i (null beyond the end) already held the value, the list
\* keeps its value and emits nothing.
C5_ListChildChange ==
    [][ (/\ last'.op = "setValue"
         /\ status' = "running"
         /\ parent[last'.a] # NULL
         /\ type[parent[last'.a]] = TYPE_LIST
         /\ value'[last'.a] # value[last'.a]) =>
        LET c == last'.a
            p == parent[c]
            i == indexChild(children, p, c)
            old == ensureSize(toList(value[p]), i + 1)
        IN  IF old[i + 1] = value'[c]
            THEN value'[p] = value[p] /\ Emissions(log', p) = 0
            ELSE /\ value'[p] = ListV([old EXCEPT ![i + 1] = value'[c]])
                 /\ Emissions(log', p) = 1 ]_vars

\* The same as C5 for the calls made while no node is its own ancestor.
C5_OnTrees ==
    [][ (/\ last'.op = "setValue"
         /\ status' = "running"
         /\ Acyclic(parent)
         /\ parent[last'.a] # NULL
         /\ type[parent[last'.a]] = TYPE_LIST
         /\ value'[last'.a] # value[last'.a]) =>
        LET c == last'.a
            p == parent[c]
            i == indexChild(children, p, c)
            old == ensureSize(toList(value[p]), i + 1)
        IN  IF old[i + 1] = value'[c]
            THEN value'[p] = value[p] /\ Emissions(log', p) = 0
            ELSE /\ value'[p] = ListV([old EXCEPT ![i + 1] = value'[c]])
                 /\ Emissions(log', p) = 1 ]_vars

\* C6: setValue(m) on a dict with leaf children, m not its value: each child
\* ends with m[child.name], null when m has no such key; the dict emits once
\* and ends with m.
C6_DictSetValue ==
    [][ (/\ last'.op = "setValue"
         /\ status' = "running"
         /\ type[last'.a] = TYPE_DICT
         /\ LeafChildren(last'.a)
         /\ value[last'.a] # last'.v) =>
        LET n == last'.a
            m == last'.v
        IN  /\ \A c \in Range(children[n]) :
                  value'[c] = IF toMap(m)[name[c]] = Absent THEN Null ELSE toMap(m)[name[c]]
            /\ Emissions(log', n) = 1
            /\ value'[n] = m ]_vars

\* A dict whose child "b" held 1 was set to {a: 1}: the child is back at
\* null and has announced it.
C6_Witness ==
    /\ last.op = "setValue"
    /\ type[last.a] = TYPE_DICT
    /\ status = "running"
    /\ LeafChildren(last.a)
    /\ last.v = MapV([NoMap EXCEPT !["a"] = IntV(1)])
    /\ value[last.a] = last.v
    /\ \E c \in Range(children[last.a]) :
          name[c] = "b" /\ value[c] = Null /\ Emissions(log, c) = 1

\* C7: when a direct child of a dict changes its value by its own setValue,
\* the dict ends with the child's value under child.name and its other keys
\* as they were, and emits once; when the entry (null if absent) already
\* equals the value, the dict keeps its value and emits nothing.
C7_DictChildChange ==
    [][ (/\ last'.op = "setValue"
         /\ status' = "running"
         /\ parent[last'.a] # NULL
         /\ type[parent[last'.a]] = TYPE_DICT
         /\ value'[last'.a] # value[last'.a]) =>
        LET c == last'.a
            p == parent[c]
            m == toMap(value[p])
            old == IF m[name[c]] = Absent THEN Null ELSE m[name[c]]
        IN  IF old = value'[c]
            THEN value'[p] = value[p] /\ Emissions(log', p) = 0
            ELSE /\ value'[p] = MapV([m EXCEPT ![name[c]] = value'[c]])
                 /\ Emissions(log', p) = 1 ]_vars

\* The same as C7 for the calls made while no node is its own ancestor.
C7_OnTrees ==
    [][ (/\ last'.op = "setValue"
         /\ status' = "running"
         /\ Acyclic(parent)
         /\ parent[last'.a] # NULL
         /\ type[parent[last'.a]] = TYPE_DICT
         /\ value'[last'.a] # value[last'.a]) =>
        LET c == last'.a
            p == parent[c]
            m == toMap(value[p])
            old == IF m[name[c]] = Absent THEN Null ELSE m[name[c]]
        IN  IF old = value'[c]
            THEN value'[p] = value[p] /\ Emissions(log', p) = 0
            ELSE /\ value'[p] = MapV([m EXCEPT ![name[c]] = value'[c]])
                 /\ Emissions(log', p) = 1 ]_vars

\* The position in a log of the first signalValueChange by n, 0 when none.
RECURSIVE FirstEmissionFrom(_, _, _)
FirstEmissionFrom(lg, n, i) ==
    IF i > Len(lg) THEN 0
    ELSE IF lg[i].e = "signalValueChange" /\ lg[i].a = n THEN i
    ELSE FirstEmissionFrom(lg, n, i + 1)

FirstEmission(lg, n) == FirstEmissionFrom(lg, n, 1)

\* The ancestors of n, nearest first, as far as NumNodes links reach.
Ancestors(par, n) == {Climb(par, n, k) : k \in 1..NumNodes} \ {NULL}

\* The entry a list or dict a keeps for its direct child c in composite vals[a].
Entry(vals, a, c) ==
    IF type[a] = TYPE_LIST
    THEN ElementAt(toList(vals[a]), indexChild(children, a, c) + 1)
    ELSE MapValue(toMap(vals[a]), name[c])

C8_WitnessStopped ==
    /\ last.op = "setValue"
    /\ status = "running"
    /\ Emissions(log, last.a) = 1
    /\ parent[last.a] # NULL
    /\ type[parent[last.a]] = TYPE_LIST
    /\ Emissions(log, parent[last.a]) = 0

\* Every container is connected once to each of its children and to no
\* other node, and no other node is connected to anything.
SubscribedWhileChild(cn, par) ==
    \A c \in Node : \A p \in Node :
        Count(cn[c], p) = IF par[c] = p /\ IsContainer(p) THEN 1 ELSE 0

RemoveOps == {"removeChild", "removeFromParent", "removeAllChildren"}

\* C9: a container is connected to signalValueChange of a node exactly while
\* the node is its direct child, and once; after a child is removed, its
\* setValue neither changes the former parent's value nor makes it emit.
C9_SubscribedWhileChild ==
    [][ /\ SubscribedWhileChild(conns', parent')
        /\ (last'.op = "setValue" /\ status' = "running" /\ last.op \in RemoveOps) =>
              \A i \in DOMAIN log :
                 (log[i].e = "signalPropertyRemoved" /\ log[i].a = last'.a) =>
                    /\ value'[log[i].b] = value[log[i].b]
                    /\ Emissions(log', log[i].b) = 0 ]_vars

\* The same as C9 when the former parent is neither the removed node nor
\* beneath it.
C9_OnTrees ==
    [][ /\ SubscribedWhileChild(conns', parent')
        /\ (last'.op = "setValue" /\ status' = "running" /\ last.op \in RemoveOps) =>
              \A i \in DOMAIN log :
                 (/\ log[i].e = "signalPropertyRemoved"
                  /\ log[i].a = last'.a
                  /\ log[i].b # last'.a
                  /\ last'.a \notin Ancestors(parent, log[i].b)) =>
                    /\ value'[log[i].b] = value[log[i].b]
                    /\ Emissions(log', log[i].b) = 0 ]_vars

\* A child was removed from a container and then changed its value.
C9_WitnessOnTrees ==
    /\ last.op = "setValue"
    /\ status = "running"
    /\ parent[last.a] = NULL
    /\ Emissions(log, last.a) = 1
    /\ \E p \in Node : p # last.a /\ IsContainer(p) /\ value[p] # Null /\ children[p] = <<>>

\* The nodes findChild of a group visits, in order: each child, followed by
\* what a child of type group visits, as far as d levels down.
RECURSIVE Preorder(_, _)
RECURSIVE PreorderFrom(_, _, _)
Preorder(n, d) == IF d = 0 THEN <<>> ELSE PreorderFrom(n, 1, d)

PreorderFrom(n, i, d) ==
    IF i > Len(children[n]) THEN <<>>
    ELSE LET c == children[n][i] IN
         <<c>> \o (IF type[c] = TYPE_GROUP THEN Preorder(c, d - 1) ELSE <<>>)
               \o PreorderFrom(n, i + 1, d)

\* The first node of a sequence that has the name, NULL when none has.
FirstNamed(list, nm) ==
    LET hits == SelectSeq(list, LAMBDA x : name[x] = nm)
    IN  IF hits = <<>> THEN NULL ELSE Head(hits)

\* Node m lies below group g with nothing but groups between them.
GroupPath(g, m) ==
    \E k \in 1..NumNodes :
        /\ Climb(parent, m, k) = g
        /\ \A j \in 1..k : type[Climb(parent, m, j)] = TYPE_GROUP

\* C10: findChild(name) of a group returns the first node of that name in
\* pre-order, descending only into children of type group: such a node is
\* found at any depth below groups, and none is found beneath a non-group.
C10_GroupFindChild ==
    (last.op = "findChild" /\ status = "running" /\ type[last.a] = TYPE_GROUP) =>
        /\ last.r = FirstNamed(Preorder(last.a, StackLimit), last.nm)
        /\ last.r # NULL => (name[last.r] = last.nm /\ GroupPath(last.a, last.r))
        /\ (\E m \in alive : name[m] = last.nm /\ GroupPath(last.a, m)) => last.r # NULL

\* findChild found a node two levels down, past a child of another name.
C10_Witness ==
    /\ last.op = "findChild"
    /\ status = "running"
    /\ type[last.a] = TYPE_GROUP
    /\ last.r # NULL
    /\ parent[last.r] \notin {NULL, last.a}
    /\ parent[parent[last.r]] = last.a

\* findChild found nothing although a node of that name lies beneath a
\* non-group child.
C10_WitnessBeneathNonGroup ==
    /\ last.op = "findChild"
    /\ status = "running"
    /\ type[last.a] = TYPE_GROUP
    /\ last.r = NULL
    /\ \E m \in alive : /\ name[m] = last.nm
                        /\ parent[m] # NULL
                        /\ parent[parent[m]] = last.a
                        /\ type[parent[m]] # TYPE_GROUP

\* The non-group nodes of a name below group g with nothing but groups
\* between them and g.
GroupTargets(g, nm) ==
    {m \in Node : name[m] = nm /\ type[m] # TYPE_GROUP /\ GroupPath(g, m)}

\* The nodes on which setChildValue of some node called setValue, in order.
SetByParents(lg) ==
    LET calls == EventsOf(lg, "setChildValue.setValue")
    IN  [i \in DOMAIN calls |-> calls[i].b]

\* C11: setChildValue(name, v) of a group calls setValue once on every
\* non-group node of that name that lies below it through groups only, and
\* on no other node; such a node without special setValue ends with value v.
C11_GroupSetChildValue ==
    [][ (last'.op = "setChildValue" /\ status' = "running" /\ type[last'.a] = TYPE_GROUP) =>
        LET targets == GroupTargets(last'.a, last'.nm)
            called == SetByParents(log')
        IN  /\ Range(called) = targets
            /\ Len(called) = Cardinality(targets)
            /\ \A i \in DOMAIN log' :
                   log'[i].e = "setChildValue.setValue" => type[log'[i].a] = TYPE_GROUP
            /\ \A t \in targets : type[t] = TYPE_LEAF => value'[t] = last'.v ]_vars

\* setChildValue of a group set two leaves of the name, both to v.
C11_Witness ==
    /\ last.op = "setChildValue"
    /\ status = "running"
    /\ type[last.a] = TYPE_GROUP
    /\ Len(SetByParents(log)) = 2
    /\ \A t \in Range(SetByParents(log)) :
           type[t] = TYPE_LEAF /\ name[t] = last.nm /\ value[t] = last.v /\ Emissions(log, t) = 1

\* Entry i of a log is a signalValueChange.
IsEmission(lg, i) == i \in DOMAIN lg /\ lg[i].e = "signalValueChange"

\* C12: a group never changes its own value; each signalValueChange(x) that
\* a direct child of a group emits is followed at once by one
\* signalValueChange(x) of the group, with the same x, which is not the
\* group; and a group emits at no other time.
C12_GroupPassesThrough ==
    status = "running" =>
        /\ \A g \in Node : type[g] = TYPE_GROUP => value[g] = Null
        /\ \A i \in DOMAIN log :
              IsEmission(log, i) =>
                 LET s == log[i].a
                     g == parent[s]
                 IN  /\ (g # NULL /\ type[g] = TYPE_GROUP) =>
                            /\ IsEmission(log, i + 1)
                            /\ log[i + 1].a = g
                            /\ log[i + 1].b = log[i].b
                     /\ type[s] = TYPE_GROUP =>
                            /\ IsEmission(log, i - 1)
                            /\ parent[log[i - 1].a] = s
                            /\ log[i - 1].b = log[i].b
                            /\ log[i].b # s
                            /\ type[log[i].b] # TYPE_GROUP

\* A leaf below two nested groups changed: the inner and then the outer
\* group emitted, both carrying the leaf.
C12_Witness ==
    /\ last.op = "setValue"
    /\ status = "running"
    /\ type[last.a] = TYPE_LEAF
    /\ Len(log) = 4
    /\ log[2] = ValueEv("signalValueChange", last.a, last.a)
    /\ log[3] = ValueEv("signalValueChange", parent[last.a], last.a)
    /\ log[4] = ValueEv("signalValueChange", parent[parent[last.a]], last.a)
    /\ type[parent[last.a]] = TYPE_GROUP
    /\ type[parent[parent[last.a]]] = TYPE_GROUP
    /\ parent[parent[last.a]] # parent[last.a]

\* C13: removeAllChildren on a node with N children emits N childRemoved
\* notifications, one per former child in the former order, and leaves the
\* node without children and every former child without parent.
C13_RemoveAllChildren ==
    [][ (last'.op = "removeAllChildren" /\ status' = "running") =>
        LET p == last'.a
            old == children[p]
            removed == EventsOf(log', "signalPropertyRemoved")
        IN  /\ Len(removed) = Len(old)
            /\ \A i \in DOMAIN old : removed[i].a = old[i] /\ removed[i].b = p
            /\ children'[p] = <<>>
            /\ \A c \in Range(old) : parent'[c] = NULL
            /\ \A c \in Node \ Range(old) : parent'[c] = parent[c]
            /\ \A q \in Node \ {p} : children'[q] = children[q] ]_vars

\* removeAllChildren ran on a node with two children.
C13_Witness ==
    /\ last.op = "removeAllChildren"
    /\ status = "running"
    /\ Len(EventsOf(log, "signalPropertyRemoved")) = 2
    /\ children[last.a] = <<>>
    /\ \A n \in Node : parent[n] = NULL

\* The child sequence after with regard to before, child c at index k gone:
\* c is no longer in it, the siblings before k keep their index, those after
\* k have it lowered by one, which also keeps their order.
IndicesAfterRemoval(before, after, p, c) ==
    LET k == indexChild(before, p, c) IN
    /\ indexChild(after, p, c) = -1
    /\ Len(after[p]) = Len(before[p]) - 1
    /\ \A s \in Range(before[p]) \ {c} :
           LET j == indexChild(before, p, s)
           IN  indexChild(after, p, s) = IF j < k THEN j ELSE j - 1

\* C14: removeChild and removeFromParent of the child at index k, also when
\* the child is destroyed next, leave the child without parent and out of
\* the sequence, the siblings before k at their index and those after k one
\* lower, in their order; no back-reference to a destroyed node is left.
C14_RemovalKeepsSiblings ==
    [][ /\ (/\ last'.op \in {"removeChild", "removeFromParent"}
            /\ status' = "running"
            /\ log' # <<>>) =>
              LET c == IF last'.op = "removeChild" THEN last'.b ELSE last'.a
                  p == parent[c]
              IN  /\ parent'[c] = NULL
                  /\ IndicesAfterRemoval(children, children', p, c)
                  /\ \A q \in Node \ {p} : children'[q] = children[q]
        /\ (/\ last'.op = "removeAndDestroy"
            /\ status' = "running"
            /\ parent[last'.a] # NULL) =>
              LET c == last'.a
                  p == parent[c]
              IN  /\ parent'[c] = NULL
                  /\ IndicesAfterRemoval(children, children', p, c)
                  /\ \A n \in Node : parent'[n] # c ]_vars

\* The same as C14 for a node that is not its own parent.
C14_OnTrees ==
    [][ /\ (/\ last'.op \in {"removeChild", "removeFromParent"}
            /\ status' = "running"
            /\ log' # <<>>) =>
              LET c == IF last'.op = "removeChild" THEN last'.b ELSE last'.a
                  p == parent[c]
              IN  /\ parent'[c] = NULL
                  /\ IndicesAfterRemoval(children, children', p, c)
                  /\ \A q \in Node \ {p} : children'[q] = children[q]
        /\ (/\ last'.op = "removeAndDestroy"
            /\ status' = "running"
            /\ parent[last'.a] \notin {NULL, last'.a}) =>
              LET c == last'.a
                  p == parent[c]
              IN  /\ parent'[c] = NULL
                  /\ IndicesAfterRemoval(children, children', p, c)
                  /\ \A n \in Node : parent'[n] # c ]_vars

\* The first of two children was removed: the second moved from index 1 to
\* index 0.
C14_WitnessOnTrees ==
    /\ last.op \in {"removeChild", "removeFromParent"}
    /\ status = "running"
    /\ \E i \in DOMAIN log :
          /\ log[i].e = "signalPropertyRemoved"
          /\ Len(children[log[i].b]) = 1
          /\ parent[log[i].a] = NULL
          /\ log[i].a < children[log[i].b][1]

\* C15: the destructor of n first emits childRemoved(n, parent) with the
\* structure as it was; then removes the children of n one by one, in order,
\* n still being a child of its parent, and destroys none of them; then
\* removes n from its parent.  After it n is in no child sequence and no
\* back-reference points to n.
C15_DestructorOrder ==
    [][ (last'.op = "destroy" /\ status' = "running") =>
        LET n == last'.a
            k == Len(children[n])
            up == IF parent[n] # NULL THEN 1 ELSE 0
            rem == EventsOf(log', "signalPropertyRemoved")
        IN  /\ log'[1] = Ev("signalPropertyRemoved", n, parent[n], parent, children)
            /\ Len(rem) = 1 + k + up
            /\ \A i \in 1..k :
                   /\ rem[1 + i].a = children[n][i]
                   /\ rem[1 + i].b = n
                   /\ rem[1 + i].par[n] = parent[n]
            /\ up = 1 =>
                   /\ rem[k + 2].a = n
                   /\ rem[k + 2].b = parent[n]
                   /\ rem[k + 1].ch[n] = <<>>
                   /\ \A c \in Range(children[n]) : rem[k + 1].par[c] = NULL
            /\ alive' = alive \ {n}
            /\ children'[n] = <<>>
            /\ parent'[n] = NULL
            /\ \A q \in Node : indexChild(children', q, n) = -1
            /\ \A m \in Node : parent'[m] # n ]_vars

\* The same as C15 for a node that is not its own parent.
C15_OnTrees ==
    [][ (last'.op = "destroy" /\ status' = "running" /\ parent[last'.a] # last'.a) =>
        LET n == last'.a
            k == Len(children[n])
            up == IF parent[n] # NULL THEN 1 ELSE 0
            rem == EventsOf(log', "signalPropertyRemoved")
        IN  /\ log'[1] = Ev("signalPropertyRemoved", n, parent[n], parent, children)
            /\ Len(rem) = 1 + k + up
            /\ \A i \in 1..k :
                   /\ rem[1 + i].a = children[n][i]
                   /\ rem[1 + i].b = n
                   /\ rem[1 + i].par[n] = parent[n]
            /\ up = 1 =>
                   /\ rem[k + 2].a = n
                   /\ rem[k + 2].b = parent[n]
                   /\ rem[k + 1].ch[n] = <<>>
                   /\ \A c \in Range(children[n]) : rem[k + 1].par[c] = NULL
            /\ alive' = alive \ {n}
            /\ children'[n] = <<>>
            /\ parent'[n] = NULL
            /\ \A q \in Node : indexChild(children', q, n) = -1
            /\ \A m \in Node : parent'[m] # n ]_vars

\* A node with a parent and a child was destroyed: its own notification,
\* the removal of the child, the removal from the parent.
C15_WitnessOnTrees ==
    /\ last.op = "destroy"
    /\ status = "running"
    /\ LET rem == EventsOf(log, "signalPropertyRemoved")
       IN  /\ Len(rem) = 3
           /\ rem[1].a = last.a /\ rem[1].b # NULL /\ rem[1].b # last.a
           /\ rem[1].ch[last.a] = <<rem[2].a>>
           /\ rem[2].b = last.a /\ rem[2].a # last.a /\ rem[2].a \in alive
           /\ rem[3].a = last.a /\ rem[3].b = rem[1].b

\* C16: removeChild(child) on a node that is not the parent of child fails:
\* no back-reference, child sequence or connection changes and no
\* childRemoved is emitted.
C16_RemoveChildNeedsParent ==
    [][ (last'.op = "removeChild" /\ parent[last'.b] # last'.a) =>
            /\ status' = "aborted"
            /\ parent' = parent /\ children' = children /\ conns' = conns
            /\ alive' = alive /\ value' = value
            /\ EventsOf(log', "signalPropertyRemoved") = <<>>
            /\ EventsOf(log', "onChildRemove") = <<>> ]_vars

\* removeChild was called on a node for the child of another container.
C16_Witness ==
    /\ last.op = "removeChild"
    /\ status = "aborted"
    /\ parent[last.b] \notin {NULL, last.a}
    /\ IsContainer(parent[last.b])
    /\ Count(conns[last.b], parent[last.b]) = 1

\* C17: addChild is only ever completed on a child without parent, and the
\* parent relation it and the removals build has no cycle: no node is its
\* own parent or its own ancestor.
C17_Forest ==
    /\ (last.op = "addChild" /\ status = "running") =>
           \E i \in DOMAIN log : log[i].e = "signalPropertyInserted" /\ log[i].a = last.b
    /\ \A n \in Node : n \notin Ancestors(parent, n)

\* The composite of list l holds, at every position below the number of its
\* children, the value of the child at that position (null beyond its end).
ListMatchesChildren(l) ==
    \A i \in DOMAIN children[l] :
        ElementAt(toList(value[l]), i) = value[children[l][i]]

\* C18: the composite value of every list corresponds position by position
\* to the values of its children, whatever operations came before; stated
\* here for the structures in which no node is its own ancestor.
C18_ListMatchesChildren ==
    (status = "running" /\ Acyclic(parent)) =>
        \A l \in alive : type[l] = TYPE_LIST => ListMatchesChildren(l)

\* setValue was called on node n during the operation the log records.
WasSet(lg, n) == \E i \in DOMAIN lg : lg[i].e = "setValue" /\ lg[i].a = n

\* C19: when the mapping of a dict changes without a setValue call on the
\* dict, that is through a notification, every key that is new or has a new
\* value is the name of a direct child of the dict; stated here for the
\* structures in which no node is its own ancestor.
C19_DictKeysOfDirectChildren ==
    [][ (status' = "running" /\ Acyclic(parent) /\ last'.op \in {"setValue", "setChildValue"}) =>
        \A dict \in Node :
            (type[dict] = TYPE_DICT /\ ~WasSet(log', dict)) =>
                \A key \in Names :
                    toMap(value'[dict])[key] # toMap(value[dict])[key] =>
                        \E c \in Range(children[dict]) : name[c] = key ]_vars

\* The same as C19 for a dict that has no group among its children.
C19_WithoutGroups ==
    [][ (status' = "running" /\ Acyclic(parent) /\ last'.op \in {"setValue", "setChildValue"}) =>
        \A dict \in Node :
            (/\ type[dict] = TYPE_DICT
             /\ ~WasSet(log', dict)
             /\ \A c \in Range(children[dict]) : type[c] # TYPE_GROUP) =>
                \A key \in Names :
                    toMap(value'[dict])[key] # toMap(value[dict])[key] =>
                        \E c \in Range(children[dict]) : name[c] = key ]_vars

\* C20: every call returns: no chain of recursive calls and notifications
\* runs out of stack.
C20_Terminates == status # "overflow"

\* The same as C20 for the calls made while no node is its own ancestor.
C20_OnTrees ==
    [][ Acyclic(parent) => status' # "overflow" ]_vars

\* A chain of calls on a tree: a list set its child dict, which set its
\* leaf and notified the list.
C20_WitnessOnTrees ==
    /\ status = "running"
    /\ Acyclic(parent)
    /\ last.op = "setValue"
    /\ type[last.a] = TYPE_LIST
    /\ Len(log) >= 5
    /\ \E d \in Node : type[d] = TYPE_DICT /\ parent[d] = last.a /\ children[d] # <<>>

Next ==
    \/ \E p, c \in Node : AddChild(p, c)
    \/ \E p, c \in Node : RemoveChild(p, c)
    \/ \E n \in Node : RemoveFromParent(n)
    \/ \E n \in Node : RemoveAllChildren(n)
    \/ \E n \in Node : Destroy(n)
    \/ \E n \in Node : RemoveAndDestroy(n)
    \/ \E n \in Node : \E v \in InputsFor(n) : SetValue(n, v)
    \/ \E n \in Node, nm \in Names, v \in ScalarValues \ {Null} : SetChildValue(n, nm, v)
    \/ \E n \in Node, nm \in Names : FindChild(n, nm)

Spec == Init /\ [][Next]_vars
====
